---- MODULE Spec2Model ----
(***************************************************************************)
(* The page tools of coda-mcp-server: each registered tool of server.py    *)
(* builds a typed request, calls the shared transport client once, and     *)
(* validates or reshapes the JSON it gets back; the export-status poll     *)
(* follows a complete snapshot with one download through a fresh HTTP      *)
(* session.  An invocation is a coroutine: it runs atomically from one     *)
(* await to the next, and the remote service chooses every response.       *)
(***************************************************************************)
EXTENDS Integers, Sequences, FiniteSets, TLC

VARIABLES pc, call, reqs, rcvd, resp, result, hist

vars == <<pc, call, reqs, rcvd, resp, result, hist>>

----------------------------------------------------------------------------
(* Python values.  An optional value (T | None) is a sequence of length at *)
(* most one: None is <<>>, a value v is <<v>>.  A dict is a function whose *)
(* DOMAIN is the set of keys it holds, so a missing key and a key holding  *)
(* null are different things.                                              *)

None == <<>>

Some(v) == <<v>>

IsNone(o) == Len(o) = 0

IsSome(o) == Len(o) = 1

\* Python truthiness of an optional string: None and "" are falsy.
Truthy(o) == IsSome(o) /\ o[1] # ""

HasKey(d, k) == k \in DOMAIN d

\* dict.get(k, default) on a dict whose values are optionals (null is None).
Get(d, k, default) == IF HasKey(d, k) THEN d[k] ELSE default

Restrict(d, S) == [k \in S |-> d[k]]

\* A JSON document as the transport client hands it back: an object (dict)
\* or an array (list).
JsonObject(d) == [kind |-> "object", fields |-> d]

JsonArray(l) == [kind |-> "array", elems |-> l]

IsDict(j) == j.kind = "object"

----------------------------------------------------------------------------
(* Bounds of the model.                                                    *)

\* Longest `items` list a service response carries.
MaxItems == 2

\* Most invocations that have ended before the one under way.
MaxEarlier == 2

\* Longest element_ids list a caller passes.
MaxIds == 2

SeqsUpTo(S, n) == UNION {[1..k -> S] : k \in 0..n}

Tasks == {1, 2}

Docs == {"d1", "d2"}

Pages == {"p1", "p2"}

RequestIds == {"r1", "r2"}

Limits == {None, Some(0), Some(25)}

PageTokens == {None, Some(""), Some("tok1")}

OutputFormats == {"html", "markdown", "pdf"}

ElementIds == {"cl-1", "cl-2"}

DownloadLinks == {"https://cdn/x1", "https://cdn/x2"}

----------------------------------------------------------------------------
(* The transport client (client.py) and what travels on the wire.          *)

\* clean_params: drops the parameters that are None, keeps the others
\* under their key with their value.
clean_params(params) ==
    [k \in {x \in DOMAIN params : IsSome(params[x])} |-> params[k][1]]

\* CodaClient.request(method, path, params=None, json=None): one HTTP
\* request to base URL + path carrying the bearer credential.
ClientRequest(method, path, params, json) ==
    [via |-> "client", method |-> method, target |-> path,
     params |-> params, json |-> json, auth |-> TRUE]

Is2xx(status) == status >= 200 /\ status < 300

\* CodaClient.request on the response: the JSON body of a 2xx response, an
\* error carrying status and body otherwise.
ClientOutcome(http) ==
    IF Is2xx(http.status)
    THEN [ok |-> TRUE, json |-> http.body]
    ELSE [ok |-> FALSE,
          err |-> [kind |-> "transport", status |-> http.status, body |-> http.body]]

\* What a coroutine does when it next gives up control: hand a record back,
\* end in an error, or wait for a request it has just issued.
Return(v) == [next |-> "return", value |-> v]

Raise(e) == [next |-> "raise", err |-> e]

AwaitClient(request) == [next |-> "client", request |-> request]

AwaitDownload(request, response) ==
    [next |-> "download", request |-> request, response |-> response]

ShapeError(model) == [kind |-> "shape", model |-> model]

----------------------------------------------------------------------------
(* The registered tools (server.py): the arguments a caller may pass and   *)
(* the typed request each wrapper builds from them.                        *)

NoArg == None

CallOf(tool, doc, page, rid, limit, token, arg) ==
    [tool |-> tool, doc_id |-> doc, page_id_or_name |-> page, request_id |-> rid,
     limit |-> limit, page_token |-> token, arg |-> arg]

PageUpdateArgs ==
    {[name |-> n, is_hidden |-> h] : n \in {None, Some("Plan")}, h \in {None, Some(TRUE)}}

PageCreateArgs ==
    {[name |-> n, parent_page_id |-> p] : n \in {"Plan", "Notes"}, p \in {None, Some("canvas-1")}}

ElementIdLists == SeqsUpTo(ElementIds, MaxIds)

Tools ==
    {"list_pages", "get_page", "update_page", "delete_page", "begin_page_content_export",
     "get_page_content_export_status", "create_page", "list_page_content_elements",
     "delete_page_content_elements"}

\* The calls a caller may make of one tool.
CallsOf(tool) ==
    CASE tool = "list_pages" ->
           {CallOf(tool, d, "", "", l, t, NoArg) : d \in Docs, l \in Limits, t \in PageTokens}
      [] tool = "update_page" ->
           {CallOf(tool, d, p, "", None, None, a) : d \in Docs, p \in Pages, a \in PageUpdateArgs}
      [] tool = "begin_page_content_export" ->
           {CallOf(tool, d, p, "", None, None, f) : d \in Docs, p \in Pages, f \in OutputFormats}
      [] tool = "get_page_content_export_status" ->
           {CallOf(tool, d, p, r, None, None, NoArg) : d \in Docs, p \in Pages, r \in RequestIds}
      [] tool = "create_page" ->
           {CallOf(tool, d, "", "", None, None, a) : d \in Docs, a \in PageCreateArgs}
      [] tool = "delete_page_content_elements" ->
           {CallOf(tool, d, p, "", None, None, ids) : d \in Docs, p \in Pages, ids \in ElementIdLists}
      [] OTHER ->
           {CallOf(tool, d, p, "", None, None, NoArg) : d \in Docs, p \in Pages}

NoCall == CallOf("", "", "", "", None, None, NoArg)

Valid(v) == [ok |-> TRUE, value |-> v]

Invalid(model) == [ok |-> FALSE, err |-> [kind |-> "validation", model |-> model]]

\* BeginPageContentExportRequest(output_format=...): html or markdown.
BeginPageContentExportRequest(output_format) ==
    IF output_format \in {"html", "markdown"}
    THEN Valid([output_format |-> output_format])
    ELSE Invalid("BeginPageContentExportRequest")

PageUpdate(a) ==
    Valid([name |-> a.name, subtitle |-> None, icon_name |-> None, image_url |-> None,
           is_hidden |-> a.is_hidden, content_update |-> None])

PageCreate(a) ==
    Valid([name |-> Some(a.name), subtitle |-> None, icon_name |-> None, image_url |-> None,
           parent_page_id |-> a.parent_page_id, page_content |-> None])

DeletePageContentRequest(element_ids) == Valid([element_ids |-> element_ids])

\* The typed request a server.py wrapper builds before it calls the tool
\* function; the wrappers that build none pass their arguments through.
TypedRequest(c) ==
    CASE c.tool = "begin_page_content_export" -> BeginPageContentExportRequest(c.arg)
      [] c.tool = "update_page" -> PageUpdate(c.arg)
      [] c.tool = "create_page" -> PageCreate(c.arg)
      [] c.tool = "delete_page_content_elements" -> DeletePageContentRequest(c.arg)
      [] OTHER -> Valid(None)

----------------------------------------------------------------------------
(* The tool functions (tools/pages.py): the request each one sends.        *)

PagesPath(doc_id) == "docs/" \o doc_id \o "/pages"

PagePath(doc_id, page_id_or_name) == "docs/" \o doc_id \o "/pages/" \o page_id_or_name

\* A bug: the continuation token is left out of the parameters.
list_pages_params_no_token(limit, page_token) == clean_params([limit |-> limit])

list_pages_params(limit, page_token) ==
    clean_params([limit |-> limit, pageToken |-> page_token])

list_pages_request(c, typed) ==
    ClientRequest("GET", PagesPath(c.doc_id), Some(list_pages_params(c.limit, c.page_token)), None)

get_page_request(c, typed) ==
    ClientRequest("GET", PagePath(c.doc_id, c.page_id_or_name), None, None)

update_page_request(c, typed) ==
    ClientRequest("PUT", PagePath(c.doc_id, c.page_id_or_name), None, Some(typed))

delete_page_request(c, typed) ==
    ClientRequest("DELETE", PagePath(c.doc_id, c.page_id_or_name), None, None)

begin_page_content_export_request(c, typed) ==
    ClientRequest("POST", PagePath(c.doc_id, c.page_id_or_name) \o "/export", None, Some(typed))

\* A bug: the request id is left out of the path.
get_page_content_export_status_request_no_id(c, typed) ==
    ClientRequest("GET", PagePath(c.doc_id, c.page_id_or_name) \o "/export", None, None)

get_page_content_export_status_request(c, typed) ==
    ClientRequest("GET", PagePath(c.doc_id, c.page_id_or_name) \o "/export/" \o c.request_id,
                  None, None)

create_page_request(c, typed) ==
    ClientRequest("POST", PagesPath(c.doc_id), None, Some(typed))

list_page_content_elements_request(c, typed) ==
    ClientRequest("GET", PagePath(c.doc_id, c.page_id_or_name) \o "/content", None, None)

delete_page_content_elements_request(c, typed) ==
    ClientRequest("DELETE", PagePath(c.doc_id, c.page_id_or_name) \o "/content", None, Some(typed))

\* The first thing every tool function does: await client.request(...).
FirstRequest(c, typed) ==
    CASE c.tool = "list_pages" -> list_pages_request(c, typed)
      [] c.tool = "get_page" -> get_page_request(c, typed)
      [] c.tool = "update_page" -> update_page_request(c, typed)
      [] c.tool = "delete_page" -> delete_page_request(c, typed)
      [] c.tool = "begin_page_content_export" -> begin_page_content_export_request(c, typed)
      [] c.tool = "get_page_content_export_status" ->
           get_page_content_export_status_request(c, typed)
      [] c.tool = "create_page" -> create_page_request(c, typed)
      [] c.tool = "list_page_content_elements" -> list_page_content_elements_request(c, typed)
      [] c.tool = "delete_page_content_elements" ->
           delete_page_content_elements_request(c, typed)

----------------------------------------------------------------------------
(* The result models (models/pages.py, models/exports.py) and what each    *)
(* tool function does with the JSON the client returns.                    *)

\* An optional field of a model read from a dict whose values are never null.
OptField(d, k) == IF HasKey(d, k) THEN Some(d[k]) ELSE None

PageRequired ==
    {"id", "type", "href", "browserLink", "name", "contentType", "isHidden",
     "isEffectivelyHidden", "children"}

\* Page.model_validate on one page dict.
Page(d) ==
    IF /\ PageRequired \subseteq DOMAIN d
       /\ d.type = "page"
       /\ d.contentType \in {"canvas", "embed", "syncPage"}
    THEN Valid([id |-> d.id, type |-> d.type, href |-> d.href, browser_link |-> d.browserLink,
                name |-> d.name, subtitle |-> OptField(d, "subtitle"),
                icon |-> OptField(d, "icon"), image |-> OptField(d, "image"),
                content_type |-> d.contentType, is_hidden |-> d.isHidden,
                is_effectively_hidden |-> d.isEffectivelyHidden,
                parent |-> OptField(d, "parent"), children |-> d.children])
    ELSE Invalid("Page")

\* PageList.model_validate.
PageList(json) ==
    IF /\ IsDict(json)
       /\ HasKey(json.fields, "items")
       /\ \A k \in 1..Len(json.fields.items) : Page(json.fields.items[k]).ok
    THEN Valid([items |-> [k \in 1..Len(json.fields.items) |-> Page(json.fields.items[k]).value],
                href |-> OptField(json.fields, "href"),
                next_page_token |-> OptField(json.fields, "nextPageToken"),
                next_page_link |-> OptField(json.fields, "nextPageLink")])
    ELSE Invalid("PageList")

\* PageCreateResult, PageUpdateResult and PageDeleteResult: the id each
\* declares is required.
PageMutateResult(json, model) ==
    IF IsDict(json) /\ HasKey(json.fields, "id")
    THEN Valid([id |-> json.fields.id])
    ELSE Invalid(model)

\* BeginPageContentExportResponse.model_validate: id, status and href.  The
\* export snapshots are dicts over fixed keys whose values are optionals: a
\* key that is missing and a key that is null validate alike.
BeginPageContentExportResponse(json) ==
    IF /\ IsDict(json)
       /\ IsSome(json.fields.id) /\ IsSome(json.fields.status) /\ IsSome(json.fields.href)
    THEN Valid([id |-> json.fields.id[1], status |-> json.fields.status[1],
                href |-> json.fields.href[1]])
    ELSE Invalid("BeginPageContentExportResponse")

ExportStatuses == {"inProgress", "complete", "failed"}

\* PageContentExportStatusResponse.model_validate: id, status, href, and the
\* optional download_link, content and error.
PageContentExportStatusResponse(json) ==
    IF /\ IsDict(json)
       /\ IsSome(json.fields.id) /\ IsSome(json.fields.status) /\ IsSome(json.fields.href)
       /\ json.fields.status[1] \in ExportStatuses
    THEN Valid([id |-> json.fields.id[1], status |-> json.fields.status[1],
                href |-> json.fields.href[1], download_link |-> json.fields.downloadLink,
                content |-> json.fields.content, error |-> json.fields.error])
    ELSE Invalid("PageContentExportStatusResponse")

\* PageContentElement(id=..., type=..., content=...): id and type are
\* required strings, content may be None.
PageContentElement(id, type, content) ==
    IF IsSome(id) /\ IsSome(type)
    THEN Valid([id |-> id[1], type |-> type[1], content |-> content])
    ELSE Invalid("PageContentElement")

\* A bug: a body that does not validate is swallowed and nothing is returned.
ValidateAndReturn_lenient(v) == IF v.ok THEN Return(v.value) ELSE Return(None)

\* Validate the client's JSON into a model and hand it back, or raise.
ValidateAndReturn(v) == IF v.ok THEN Return(v.value) ELSE Raise(ShapeError(v.err.model))

\* A bug: a response that carries a continuation token makes the tool
\* function ask for the next page.
list_pages_result_follows(c, typed, json) ==
    LET v == PageList(json) IN
    IF v.ok /\ IsSome(v.value.next_page_token)
    THEN AwaitClient(ClientRequest("GET", PagesPath(c.doc_id),
             Some(list_pages_params(c.limit, v.value.next_page_token)), None))
    ELSE ValidateAndReturn(v)

list_pages_result(c, typed, json) == ValidateAndReturn(PageList(json))

get_page_result(c, typed, json) ==
    ValidateAndReturn(IF IsDict(json) THEN Page(json.fields) ELSE Invalid("Page"))

update_page_result(c, typed, json) == ValidateAndReturn(PageMutateResult(json, "PageUpdateResult"))

delete_page_result(c, typed, json) == ValidateAndReturn(PageMutateResult(json, "PageDeleteResult"))

create_page_result(c, typed, json) == ValidateAndReturn(PageMutateResult(json, "PageCreateResult"))

\* A bug: begin goes on to ask for the status of the export it started.
begin_page_content_export_result_polls(c, typed, json) ==
    LET v == BeginPageContentExportResponse(json) IN
    IF v.ok
    THEN AwaitClient(ClientRequest("GET",
             PagePath(c.doc_id, c.page_id_or_name) \o "/export/" \o v.value.id, None, None))
    ELSE Raise(ShapeError(v.err.model))

begin_page_content_export_result(c, typed, json) ==
    ValidateAndReturn(BeginPageContentExportResponse(json))

\* A bug: the auto-fetch looks at the link and not at the status.
should_download_any_status(response) == Truthy(response.download_link)

\* A bug: the link is tested against None, so the empty string counts as a link.
should_download_not_none(response) ==
    response.status = "complete" /\ IsSome(response.download_link)

\* The auto-fetch test: response.status == "complete" and response.download_link.
should_download(response) ==
    response.status = "complete" /\ Truthy(response.download_link)

\* A bug: the download goes through the shared client.
download_request_via_client(response) ==
    ClientRequest("GET", response.download_link[1], None, None)

\* A bug: the download goes to the snapshot's href, not to its download link.
download_request_href(response) ==
    [via |-> "session", method |-> "GET", target |-> response.href,
     params |-> None, json |-> None, auth |-> FALSE]

\* aiohttp.ClientSession().get(response.download_link): a session of its
\* own, created for this one request, with no headers given to it.
download_request(response) ==
    [via |-> "session", method |-> "GET", target |-> response.download_link[1],
     params |-> None, json |-> None, auth |-> FALSE]

\* A bug: the tool function waits for the export itself, asking again for as
\* long as the service reports it in progress.
get_page_content_export_status_result_repoll(c, typed, json) ==
    LET v == PageContentExportStatusResponse(json) IN
    IF ~v.ok THEN Raise(ShapeError(v.err.model))
    ELSE IF v.value.status = "inProgress"
         THEN AwaitClient(FirstRequest(c, typed))
         ELSE IF should_download(v.value)
              THEN AwaitDownload(download_request(v.value), v.value)
              ELSE Return(v.value)

\* The tool function once the status GET has returned: validate, then either
\* return the snapshot or go on to the download.
get_page_content_export_status_result(c, typed, json) ==
    LET v == PageContentExportStatusResponse(json) IN
    IF ~v.ok THEN Raise(ShapeError(v.err.model))
    ELSE IF should_download(v.value)
         THEN AwaitDownload(download_request(v.value), v.value)
         ELSE Return(v.value)

\* A bug: the fetched text fills content only when the snapshot had none.
download_result_keeps_content(response, http) ==
    Return([response EXCEPT !.content = IF IsSome(@) THEN @ ELSE Some(http.text)])

\* A bug: the fetched text goes through a module-level buffer that is read
\* before it is written, so a poll hands back what the download before it
\* fetched.
download_result_cached(response, http) ==
    LET hits == {k \in 1..Len(hist) :
                   /\ hist[k].call.tool = "get_page_content_export_status"
                   /\ Len(hist[k].rcvd) = 2}
        last == CHOOSE k \in hits : \A m \in hits : m <= k
    IN IF hits # {}
       THEN Return([response EXCEPT !.content = Some(hist[last].rcvd[2].http.text)])
       ELSE Return([response EXCEPT !.content = Some(http.text)])

\* A bug: the link is dropped from the record once it has been followed.
download_result_clears_link(response, http) ==
    Return([response EXCEPT !.content = Some(http.text), !.download_link = None])

\* response.content = await http_response.text(): the body of whatever
\* response came back; its status is not looked at.
download_result(response, http) == Return([response EXCEPT !.content = Some(http.text)])

\* session.get raising (the connection failed): nothing catches it.
download_failed(response, e) == Raise(e)

\* A bug: the element is built without the item's content.
element_of_no_content(item) ==
    PageContentElement(Get(item, "id", Some("")), Get(item, "type", Some("unknown")), None)

\* A bug: the item's id and type are read without a default, item.get("id")
\* and item.get("type"), so an item that lacks one is rejected.
element_of_no_defaults(item) ==
    PageContentElement(Get(item, "id", None), Get(item, "type", None),
                       Get(item, "content", None))

\* PageContentElement(id=item.get("id", ""), type=item.get("type", "unknown"),
\* content=item.get("content")).
element_of(item) ==
    PageContentElement(Get(item, "id", Some("")), Get(item, "type", Some("unknown")),
                       Get(item, "content", None))

\* The loop over result["items"]: one element per item, appended in order;
\* the first item PageContentElement rejects ends the call.
RECURSIVE ElementsOf(_, _)
ElementsOf(items, elements) ==
    IF items = <<>> THEN Valid(elements)
    ELSE LET element == element_of(Head(items))
         IN IF element.ok
            THEN ElementsOf(Tail(items), Append(elements, element.value))
            ELSE element

\* A bug: the placeholder gets the default type of an item.
blob_element_unknown(content) ==
    PageContentElement(Some("page-content"), Some("unknown"), content).value

\* The one element that stands for a content blob.
blob_element(content) == PageContentElement(Some("page-content"), Some("html"), content).value

\* The schema of PageContentElementList: an items list whose elements each
\* hold a string id and a string type.
PageContentElementListSchema(json) ==
    /\ IsDict(json)
    /\ HasKey(json.fields, "items")
    /\ IsSome(json.fields.items)
    /\ \A k \in 1..Len(json.fields.items[1]) :
          LET item == json.fields.items[1][k] IN
          /\ HasKey(item, "id") /\ IsSome(item.id)
          /\ HasKey(item, "type") /\ IsSome(item.type)

\* The schema of DeletePageContentResult: the deleted element ids.
DeletePageContentResultSchema(json) ==
    IsDict(json) /\ HasKey(json.fields, "deletedElementIds")

\* PageContentElementList(items=elements, href=...).
PageContentElementList(items, href) == [items |-> items, href |-> href]

\* A bug: the content field is looked at first, so a response that holds
\* both fields yields the placeholder and its items are ignored.
list_page_content_elements_result_content_first(c, typed, json) ==
    IF IsDict(json)
    THEN LET body == json.fields
             href == Get(body, "href", None)
         IN IF HasKey(body, "content")
            THEN Return(PageContentElementList(
                     <<blob_element(Get(body, "content", None))>>, href))
            ELSE IF HasKey(body, "items")
                 THEN IF IsNone(body.items)
                      THEN Raise([kind |-> "type", model |-> "items"])
                      ELSE LET elements == ElementsOf(body.items[1], <<>>)
                           IN IF elements.ok
                              THEN Return(PageContentElementList(elements.value, href))
                              ELSE Raise(ShapeError(elements.err.model))
                 ELSE Return(PageContentElementList(<<>>, href))
    ELSE Return(PageContentElementList(<<>>, None))

\* The tool function once the content GET has returned: items first, then
\* content, then nothing.
list_page_content_elements_result(c, typed, json) ==
    IF IsDict(json)
    THEN LET body == json.fields
             href == Get(body, "href", None)
         IN IF HasKey(body, "items")
            THEN IF IsNone(body.items)
                 THEN Raise([kind |-> "type", model |-> "items"])
                 ELSE LET elements == ElementsOf(body.items[1], <<>>)
                      IN IF elements.ok
                         THEN Return(PageContentElementList(elements.value, href))
                         ELSE Raise(ShapeError(elements.err.model))
            ELSE IF HasKey(body, "content")
                 THEN Return(PageContentElementList(
                          <<blob_element(Get(body, "content", None))>>, href))
                 ELSE Return(PageContentElementList(<<>>, href))
    ELSE Return(PageContentElementList(<<>>, None))

\* A bug: the result is validated from what the service says it deleted.
delete_page_content_elements_result_from_body(c, typed, json) ==
    IF DeletePageContentResultSchema(json)
    THEN Return([deleted_element_ids |-> json.fields.deletedElementIds])
    ELSE Raise(ShapeError("DeletePageContentResult"))

\* DeletePageContentResult(deleted_element_ids=delete_request.element_ids):
\* the client's JSON is not read.
delete_page_content_elements_result(c, typed, json) ==
    Return([deleted_element_ids |-> typed.element_ids])

\* What a tool function does once client.request has returned its JSON.
OnJson(c, typed, json) ==
    CASE c.tool = "list_pages" -> list_pages_result(c, typed, json)
      [] c.tool = "get_page" -> get_page_result(c, typed, json)
      [] c.tool = "update_page" -> update_page_result(c, typed, json)
      [] c.tool = "delete_page" -> delete_page_result(c, typed, json)
      [] c.tool = "begin_page_content_export" -> begin_page_content_export_result(c, typed, json)
      [] c.tool = "get_page_content_export_status" ->
           get_page_content_export_status_result(c, typed, json)
      [] c.tool = "create_page" -> create_page_result(c, typed, json)
      [] c.tool = "list_page_content_elements" -> list_page_content_elements_result(c, typed, json)
      [] c.tool = "delete_page_content_elements" ->
           delete_page_content_elements_result(c, typed, json)

\* A bug: the tool function catches the error and sends its request again.
OnClientError_retry(c, typed, err) == AwaitClient(FirstRequest(c, typed))

\* What a tool function does when client.request raises: no tool function
\* catches anything, so the error leaves the invocation as it is.
OnClientError(c, typed, err) == Raise(err)

----------------------------------------------------------------------------
(* The remote service: every response an invocation may receive.           *)

ErrorResponses ==
    {[status |-> st, body |-> b] : st \in {404, 500}, b \in {"Not found", "boom"}}

GoodPage(id, name) ==
    [id |-> id, type |-> "page", href |-> "https://coda.io/apis/v1/pages/" \o id,
     browserLink |-> "https://coda.io/d/" \o id, name |-> name, contentType |-> "canvas",
     isHidden |-> FALSE, isEffectivelyHidden |-> FALSE, children |-> <<>>]

PageDicts ==
    {GoodPage("canvas-1", "Plan"),
     GoodPage("canvas-2", "Notes") @@ [subtitle |-> "second"],
     Restrict(GoodPage("canvas-3", "Lost"), PageRequired \ {"id"}),
     [GoodPage("canvas-4", "Odd") EXCEPT !.contentType = "pdf"]}

PageListBodies ==
    {JsonObject([items |-> ps]) : ps \in SeqsUpTo(PageDicts, MaxItems)}
    \cup {JsonObject([items |-> ps, href |-> "https://coda.io/apis/v1/pages",
                      nextPageToken |-> "tok2"]) : ps \in SeqsUpTo(PageDicts, MaxItems)}
    \cup {JsonObject([href |-> "https://coda.io/apis/v1/pages"]), JsonArray(<<>>)}

PageBodies == {JsonObject(p) : p \in PageDicts} \cup {JsonArray(<<>>)}

MutateBodies ==
    {JsonObject([id |-> "canvas-1", requestId |-> "req-1"]),
     JsonObject([requestId |-> "req-1"]), JsonArray(<<>>)}

DeleteContentBodies ==
    {JsonObject([deletedElementIds |-> ids]) : ids \in SeqsUpTo(ElementIds, 1)}
    \cup {JsonObject([requestId |-> "req-1"]), JsonArray(<<>>)}

BeginExportBodies ==
    {JsonObject([id |-> i, status |-> Some("inProgress"), href |-> Some("https://coda.io/export")]) :
        i \in {None} \cup {Some(r) : r \in RequestIds}}
    \cup {JsonArray(<<>>)}

ExportStatusBodies ==
    {JsonObject([id |-> i, status |-> st, href |-> Some("https://coda.io/export"),
                 downloadLink |-> l, content |-> ct, error |-> e]) :
        i \in {None, Some("r1")},
        st \in {Some(x) : x \in ExportStatuses \cup {"bogus"}},
        l \in {None, Some("")} \cup {Some(x) : x \in DownloadLinks},
        ct \in {None, Some("stale")},
        e \in {None, Some("export failed")}}
    \cup {JsonArray(<<>>)}

\* The items of a content listing: dicts over any of the keys id, type and
\* content, an id being a string or null.
ItemDicts ==
    {Restrict(f, S) :
        f \in [id : {None, Some("cl-1"), Some("cl-2")}, type : {Some("text")},
               content : {Some("hello")}],
        S \in SUBSET {"id", "type", "content"}}

ContentBodies ==
    {JsonObject(Restrict(f, S)) :
        f \in [items : {None} \cup {Some(l) : l \in SeqsUpTo(ItemDicts, MaxItems)},
               content : {None, Some("<p>blob</p>")},
               href : {Some("https://coda.io/content")}],
        S \in SUBSET {"items", "content", "href"}}
    \cup {JsonArray(<<>>)}

SuccessBodies(tool) ==
    CASE tool = "list_pages" -> PageListBodies
      [] tool = "get_page" -> PageBodies
      [] tool = "begin_page_content_export" -> BeginExportBodies
      [] tool = "get_page_content_export_status" -> ExportStatusBodies
      [] tool = "list_page_content_elements" -> ContentBodies
      [] tool = "delete_page_content_elements" -> DeleteContentBodies
      [] OTHER -> MutateBodies

SuccessResponses(tool) == {[status |-> 200, body |-> b] : b \in SuccessBodies(tool)}

\* What the download link serves: any status, any text.
DownloadResponses ==
    {[status |-> st, text |-> t] : st \in {200, 403}, t \in {"", "<p>v1</p>", "# v2"}}

ConnectionError == [kind |-> "connection"]

----------------------------------------------------------------------------
(* The invocations.  pc is where the coroutine stands, call its arguments, *)
(* reqs the requests it has issued, rcvd the responses it has received,    *)
(* resp the validated snapshot it holds across the download, result what   *)
(* it handed back or raised.  hist lists the invocations that have ended   *)
(* and whose frames are gone.                                              *)

NoResult == [kind |-> "none"]

Init ==
    /\ pc = [i \in Tasks |-> "idle"]
    /\ call = [i \in Tasks |-> NoCall]
    /\ reqs = [i \in Tasks |-> <<>>]
    /\ rcvd = [i \in Tasks |-> <<>>]
    /\ resp = [i \in Tasks |-> None]
    /\ result = [i \in Tasks |-> NoResult]
    /\ hist = <<>>

\* The coroutine of task i runs up to its next await, return or raise.
Advance(i, step) ==
    CASE step.next = "return" ->
           /\ pc' = [pc EXCEPT ![i] = "returned"]
           /\ result' = [result EXCEPT ![i] = [kind |-> "record", value |-> step.value]]
           /\ UNCHANGED <<reqs, resp>>
      [] step.next = "raise" ->
           /\ pc' = [pc EXCEPT ![i] = "raised"]
           /\ result' = [result EXCEPT ![i] = [kind |-> "error", err |-> step.err]]
           /\ UNCHANGED <<reqs, resp>>
      [] step.next = "client" ->
           /\ pc' = [pc EXCEPT ![i] = "client"]
           /\ reqs' = [reqs EXCEPT ![i] = Append(@, step.request)]
           /\ UNCHANGED <<resp, result>>
      [] step.next = "download" ->
           /\ pc' = [pc EXCEPT ![i] = "download"]
           /\ reqs' = [reqs EXCEPT ![i] = Append(@, step.request)]
           /\ resp' = [resp EXCEPT ![i] = Some(step.response)]
           /\ UNCHANGED result

\* A bug: the wrapper calls the tool function with the arguments as they
\* came and validates nothing.
Wrapper_unvalidated(c) ==
    AwaitClient(FirstRequest(c, IF TypedRequest(c).ok THEN TypedRequest(c).value
                                ELSE [output_format |-> c.arg]))

\* A server.py wrapper: the typed request is built first, and only then is
\* the tool function called, which issues its request through the client.
Wrapper(c) ==
    LET typed == TypedRequest(c) IN
    IF typed.ok THEN AwaitClient(FirstRequest(c, typed.value)) ELSE Raise(typed.err)

\* The registered tool is invoked with the call c.
InvokeCall(i, c) ==
    /\ pc[i] = "idle"
    /\ call' = [call EXCEPT ![i] = c]
    /\ Advance(i, Wrapper(c))
    /\ UNCHANGED <<rcvd, hist>>

\* The client's request is answered with the response http.
ClientAnswers(i, http) ==
    /\ pc[i] = "client"
    /\ rcvd' = [rcvd EXCEPT ![i] = Append(@, [via |-> "client", http |-> http])]
    /\ LET outcome == ClientOutcome(http)
           typed == TypedRequest(call[i]).value
       IN IF outcome.ok
          THEN Advance(i, OnJson(call[i], typed, outcome.json))
          ELSE Advance(i, OnClientError(call[i], typed, outcome.err))
    /\ UNCHANGED <<call, hist>>

\* A bug: response is a module-level name that every invocation assigns, so
\* a download started by one poll fills the snapshot another one stored.
held_response_shared(i) ==
    IF \E j \in Tasks \ {i} : IsSome(resp[j])
    THEN resp[CHOOSE j \in Tasks \ {i} : IsSome(resp[j])][1]
    ELSE resp[i][1]

\* The local name response of the coroutine, as the download finds it.
held_response(i) == resp[i][1]

\* The download link answers with the response http.
DownloadAnswers(i, http) ==
    /\ pc[i] = "download"
    /\ rcvd' = [rcvd EXCEPT ![i] = Append(@, [via |-> "session", http |-> http])]
    /\ Advance(i, download_result(held_response(i), http))
    /\ UNCHANGED <<call, hist>>

\* A registered tool is invoked: the wrapper builds its typed request and
\* the tool function issues its request through the client.
Invoke(i) == \E tool \in Tools : \E c \in CallsOf(tool) : InvokeCall(i, c)

\* The service answers the client's request with a non-2xx response.
ClientFails(i) == \E http \in ErrorResponses : ClientAnswers(i, http)

\* The service answers the client's request with a 2xx response.
ClientSucceeds(i) ==
    /\ pc[i] = "client"
    /\ \E http \in SuccessResponses(call[i].tool) : ClientAnswers(i, http)

\* The download link answers.
DownloadResponds(i) == \E http \in DownloadResponses : DownloadAnswers(i, http)

\* The download link cannot be reached.
DownloadFails(i) ==
    /\ pc[i] = "download"
    /\ Advance(i, download_failed(held_response(i), ConnectionError))
    /\ UNCHANGED <<call, rcvd, hist>>

\* One invocation at a time.
Next ==
    \/ Invoke(1)
    \/ ClientFails(1)
    \/ ClientSucceeds(1)
    \/ DownloadResponds(1)
    \/ DownloadFails(1)

Spec == Init /\ [][Next]_vars

----------------------------------------------------------------------------
(* The export workflow on its own: begin and poll calls for one page, and  *)
(* the answers that drive a poll down each of its paths.                   *)

ExportBeginCalls ==
    {CallOf("begin_page_content_export", "d1", "p1", "", None, None, f) : f \in {"html", "pdf"}}

ExportPollCalls ==
    {CallOf("get_page_content_export_status", "d1", "p1", r, None, None, NoArg) :
        r \in RequestIds}

ExportSnapshot(status, link, content, error) ==
    JsonObject([id |-> Some("r1"), status |-> Some(status),
                href |-> Some("https://coda.io/export"),
                downloadLink |-> link, content |-> content, error |-> error])

ExportSuccessResponses(tool) ==
    IF tool = "begin_page_content_export"
    THEN {[status |-> 200,
           body |-> JsonObject([id |-> Some("r1"), status |-> Some("inProgress"),
                                href |-> Some("https://coda.io/export")])]}
    ELSE {[status |-> 200, body |-> b] :
            b \in {ExportSnapshot("inProgress", None, None, None),
                   ExportSnapshot("complete", Some("https://cdn/x1"), None, None),
                   ExportSnapshot("complete", Some("https://cdn/x2"), Some("stale"), None),
                   ExportSnapshot("complete", None, Some("stale"), None),
                   ExportSnapshot("failed", None, None, Some("export failed"))}}

ExportErrorResponses == {[status |-> 404, body |-> "Not found"]}

ExportDownloadResponses == {[status |-> 200, text |-> t] : t \in {"<p>v1</p>", "# v2"}}

BeginInvoke(i) == \E c \in ExportBeginCalls : InvokeCall(i, c)

PollInvoke(i) == \E c \in ExportPollCalls : InvokeCall(i, c)

ExportClientFails(i) == \E http \in ExportErrorResponses : ClientAnswers(i, http)

ExportClientSucceeds(i) ==
    /\ pc[i] = "client"
    /\ \E http \in ExportSuccessResponses(call[i].tool) : ClientAnswers(i, http)

ExportDownloadResponds(i) == \E http \in ExportDownloadResponses : DownloadAnswers(i, http)

Ended(i) == pc[i] \in {"returned", "raised"}

\* What is left of an invocation once it has ended.
Record(i) == [call |-> call[i], reqs |-> reqs[i], rcvd |-> rcvd[i], result |-> result[i]]

\* The coroutine of an ended invocation is gone, and its locals with it; the
\* next invocation starts from a frame of its own.
Finish(i) ==
    /\ Ended(i)
    /\ Len(hist) < MaxEarlier
    /\ hist' = Append(hist, Record(i))
    /\ pc' = [pc EXCEPT ![i] = "idle"]
    /\ call' = [call EXCEPT ![i] = NoCall]
    /\ reqs' = [reqs EXCEPT ![i] = <<>>]
    /\ rcvd' = [rcvd EXCEPT ![i] = <<>>]
    /\ resp' = [resp EXCEPT ![i] = None]
    /\ result' = [result EXCEPT ![i] = NoResult]

\* Export calls one after another in one process.
SeqNext ==
    \/ BeginInvoke(1)
    \/ PollInvoke(1)
    \/ ExportClientFails(1)
    \/ ExportClientSucceeds(1)
    \/ ExportDownloadResponds(1)
    \/ DownloadFails(1)
    \/ Finish(1)

SeqSpec == Init /\ [][SeqNext]_vars

\* Two export invocations under way at once on the one event loop: either
\* coroutine may be the next to run, from the await it stands at to its next.
ConcNext ==
    \E i \in Tasks :
        \/ BeginInvoke(i)
        \/ PollInvoke(i)
        \/ ExportClientFails(i)
        \/ ExportClientSucceeds(i)
        \/ ExportDownloadResponds(i)
        \/ DownloadFails(i)

ConcSpec == Init /\ [][ConcNext]_vars

----------------------------------------------------------------------------
(* What the invocations are checked against.                               *)

Poll(i) == call[i].tool = "get_page_content_export_status"

\* The first response of task i is a 2xx answer to its client request.
GotJson(i) ==
    /\ Len(rcvd[i]) >= 1
    /\ rcvd[i][1].via = "client"
    /\ Is2xx(rcvd[i][1].http.status)

\* The fields of the JSON object the client handed to task i.
GotObject(i) == GotJson(i) /\ IsDict(rcvd[i][1].http.body)

Snapshot(i) == rcvd[i][1].http.body.fields

Downloads(i) == {k \in 1..Len(reqs[i]) : reqs[i][k].via = "session"}

\* C1: a poll that is handed a snapshot with status complete and a download
\* link, and returns, returns a record whose content is the text received
\* from that link, whatever content the snapshot carried.
C1_ExportCompletion ==
    \A i \in Tasks :
        (/\ Poll(i) /\ GotObject(i)
         /\ Snapshot(i).status = Some("complete")
         /\ Truthy(Snapshot(i).downloadLink)
         /\ pc[i] = "returned")
        => /\ Len(reqs[i]) = 2 /\ Len(rcvd[i]) = 2
           /\ reqs[i][2].target = Snapshot(i).downloadLink[1]
           /\ rcvd[i][2].via = "session"
           /\ result[i].value.content = Some(rcvd[i][2].http.text)

C1_Witness ==
    /\ Poll(1) /\ GotObject(1) /\ pc[1] = "returned"
    /\ Snapshot(1).status = Some("complete")
    /\ Snapshot(1).downloadLink = Some("https://cdn/x2")
    /\ Snapshot(1).content = Some("stale")
    /\ Len(rcvd[1]) = 2
    /\ rcvd[1][2].http.text = "# v2"
    /\ result[1].value.content = Some("# v2")

\* C2: a poll that is handed a snapshot with status failed and an error
\* string issues no download, link or no link, and the record it returns
\* carries that error string as it came.
C2_ExportFailure ==
    \A i \in Tasks :
        (/\ Poll(i) /\ GotObject(i)
         /\ Snapshot(i).status = Some("failed")
         /\ IsSome(Snapshot(i).error))
        => /\ Downloads(i) = {}
           /\ Len(reqs[i]) = 1
           /\ pc[i] \in {"returned", "raised"}
           /\ pc[i] = "returned" => result[i].value.error = Snapshot(i).error

C2_Witness ==
    /\ Poll(1) /\ GotObject(1) /\ pc[1] = "returned"
    /\ Snapshot(1).status = Some("failed")
    /\ Snapshot(1).downloadLink = Some("https://cdn/x1")
    /\ result[1].value.error = Some("export failed")
    /\ Len(reqs[1]) = 1

\* The first response of task i is a non-2xx answer to its client request.
GotTransportError(i) ==
    /\ Len(rcvd[i]) >= 1
    /\ rcvd[i][1].via = "client"
    /\ ~Is2xx(rcvd[i][1].http.status)

\* C3: when the client fails a tool function's request (a 404 on the status
\* GET, or any other failure of any page tool), the invocation has ended in
\* that error, status and body as received, after exactly one request: no
\* second GET, no download, no record.
C3_ErrorPropagatesWithoutRetry ==
    \A i \in Tasks :
        GotTransportError(i)
        => /\ pc[i] = "raised"
           /\ result[i].kind = "error"
           /\ result[i].err.kind = "transport"
           /\ result[i].err.status = rcvd[i][1].http.status
           /\ result[i].err.body = rcvd[i][1].http.body
           /\ Len(reqs[i]) = 1
           /\ Len(rcvd[i]) = 1

C3_Witness ==
    /\ Poll(1) /\ GotTransportError(1)
    /\ rcvd[1][1].http = [status |-> 404, body |-> "Not found"]
    /\ pc[1] = "raised"
    /\ result[1].err = [kind |-> "transport", status |-> 404, body |-> "Not found"]

Listing(i) == call[i].tool = "list_page_content_elements"

\* C4: when the listing response holds an items list, the list returned has
\* its length and its order, and the k-th element carries the id, type and
\* content the k-th item holds.
C4_ItemsOneToOne ==
    \A i \in Tasks :
        (/\ Listing(i) /\ GotObject(i)
         /\ HasKey(Snapshot(i), "items")
         /\ pc[i] = "returned")
        => /\ IsSome(Snapshot(i).items)
           /\ LET items == Snapshot(i).items[1]
                  out == result[i].value.items
              IN /\ Len(out) = Len(items)
                 /\ \A k \in 1..Len(items) :
                       /\ HasKey(items[k], "id") => items[k].id = Some(out[k].id)
                       /\ HasKey(items[k], "type") => items[k].type = Some(out[k].type)
                       /\ out[k].content = Get(items[k], "content", None)

C4_Witness ==
    /\ Listing(1) /\ GotObject(1) /\ pc[1] = "returned"
    /\ HasKey(Snapshot(1), "items")
    /\ Snapshot(1).items =
          Some(<<[id |-> Some("cl-2"), type |-> Some("text"), content |-> Some("hello")],
                 [id |-> Some("cl-1"), type |-> Some("text")]>>)
    /\ result[1].value.items =
          <<[id |-> "cl-2", type |-> "text", content |-> Some("hello")],
            [id |-> "cl-1", type |-> "text", content |-> None]>>

\* C5: when the listing response holds a content field and no items field,
\* the call returns exactly one element: id page-content, type html, content
\* the blob of the response.
C5_BlobPlaceholder ==
    \A i \in Tasks :
        (/\ Listing(i) /\ GotObject(i)
         /\ HasKey(Snapshot(i), "content")
         /\ ~HasKey(Snapshot(i), "items"))
        => /\ pc[i] = "returned"
           /\ result[i].value.items =
                <<[id |-> "page-content", type |-> "html", content |-> Snapshot(i).content]>>

C5_Witness ==
    /\ Listing(1) /\ GotObject(1) /\ pc[1] = "returned"
    /\ DOMAIN Snapshot(1) = {"content"}
    /\ Snapshot(1).content = Some("<p>blob</p>")
    /\ result[1].value.items =
          <<[id |-> "page-content", type |-> "html", content |-> Some("<p>blob</p>")]>>

\* C6: the request of list_pages carries limit exactly when the caller set
\* it, under the key limit with the caller's value, and the continuation
\* token exactly when the caller set it, under the key pageToken with the
\* caller's value; a parameter left unset is not among the query parameters.
C6_UnsetParamsOmitted ==
    \A i \in Tasks :
        (call[i].tool = "list_pages" /\ Len(reqs[i]) >= 1)
        => /\ IsSome(reqs[i][1].params)
           /\ LET sent == reqs[i][1].params[1] IN
              /\ DOMAIN sent \subseteq {"limit", "pageToken"}
              /\ HasKey(sent, "limit") <=> IsSome(call[i].limit)
              /\ HasKey(sent, "pageToken") <=> IsSome(call[i].page_token)
              /\ HasKey(sent, "limit") => sent.limit = call[i].limit[1]
              /\ HasKey(sent, "pageToken") => sent.pageToken = call[i].page_token[1]

C6_Witness ==
    /\ call[1].tool = "list_pages" /\ Len(reqs[1]) = 1
    /\ call[1].limit = None
    /\ call[1].page_token = Some("tok1")
    /\ DOMAIN reqs[1][1].params[1] = {"pageToken"}
    /\ reqs[1][1].params[1].pageToken = "tok1"

\* The verb, path and body documented for each page tool.
Documented(c) ==
    LET doc == "docs/" \o c.doc_id
        page == "docs/" \o c.doc_id \o "/pages/" \o c.page_id_or_name
        body == Some(TypedRequest(c).value)
    IN CASE c.tool = "list_pages" -> <<"GET", doc \o "/pages", None>>
         [] c.tool = "create_page" -> <<"POST", doc \o "/pages", body>>
         [] c.tool = "get_page" -> <<"GET", page, None>>
         [] c.tool = "update_page" -> <<"PUT", page, body>>
         [] c.tool = "delete_page" -> <<"DELETE", page, None>>
         [] c.tool = "list_page_content_elements" -> <<"GET", page \o "/content", None>>
         [] c.tool = "delete_page_content_elements" -> <<"DELETE", page \o "/content", body>>
         [] c.tool = "begin_page_content_export" -> <<"POST", page \o "/export", body>>
         [] c.tool = "get_page_content_export_status" ->
              <<"GET", page \o "/export/" \o c.request_id, None>>

\* C7: the request every page tool function sends through the client has
\* the documented verb, the documented path built from the call's own
\* arguments, and for a body the typed request it was given.
C7_PathTemplates ==
    \A i \in Tasks :
        Len(reqs[i]) >= 1
        => /\ reqs[i][1].via = "client"
           /\ <<reqs[i][1].method, reqs[i][1].target, reqs[i][1].json>> = Documented(call[i])

C7_Witness ==
    /\ Poll(1) /\ call[1].doc_id = "d2" /\ call[1].page_id_or_name = "p1"
    /\ call[1].request_id = "r2"
    /\ Len(reqs[1]) >= 1
    /\ reqs[1][1].method = "GET"
    /\ reqs[1][1].target = "docs/d2/pages/p1/export/r2"

\* C8: a request whose target is a download link goes through a session of
\* its own, never through the shared client, and carries no credential.
C8_DownloadUnauthenticated ==
    \A i \in Tasks : \A k \in 1..Len(reqs[i]) :
        /\ reqs[i][k].target \in DownloadLinks
             => reqs[i][k].via = "session" /\ ~reqs[i][k].auth /\ reqs[i][k].method = "GET"
        /\ reqs[i][k].via = "session" => k = 2 /\ reqs[i][1].via = "client"

C8_Witness ==
    /\ Poll(1) /\ Len(reqs[1]) = 2
    /\ reqs[1][1].auth
    /\ reqs[1][2].target = "https://cdn/x1"
    /\ reqs[1][2].via = "session"
    /\ ~reqs[1][2].auth
    /\ pc[1] = "returned"

\* C9: no invocation hands back a record after receiving a non-2xx response
\* to a request it issued, the download GET included.
C9_Non2xxNeverReturns ==
    \A i \in Tasks :
        pc[i] = "returned" => \A k \in 1..Len(rcvd[i]) : Is2xx(rcvd[i][k].http.status)

\* The success body matches the schema of the record the tool returns.
MatchesSchema(c, json) ==
    CASE c.tool = "list_pages" -> PageList(json).ok
      [] c.tool = "get_page" -> IsDict(json) /\ Page(json.fields).ok
      [] c.tool \in {"update_page", "delete_page", "create_page"} -> PageMutateResult(json, "").ok
      [] c.tool = "begin_page_content_export" -> BeginPageContentExportResponse(json).ok
      [] c.tool = "get_page_content_export_status" -> PageContentExportStatusResponse(json).ok
      [] c.tool = "list_page_content_elements" -> PageContentElementListSchema(json)
      [] c.tool = "delete_page_content_elements" -> DeletePageContentResultSchema(json)

ValidatingTools ==
    {"list_pages", "get_page", "update_page", "delete_page", "create_page",
     "begin_page_content_export", "get_page_content_export_status"}

C11_ValidationPrecedesTransport ==
    \A i \in Tasks :
        (pc[i] # "idle" /\ ~TypedRequest(call[i]).ok)
        => /\ pc[i] = "raised"
           /\ result[i].kind = "error"
           /\ result[i].err.kind = "validation"
           /\ reqs[i] = <<>>
           /\ rcvd[i] = <<>>

C11_Witness ==
    /\ call[1].tool = "begin_page_content_export"
    /\ call[1].arg = "pdf"
    /\ pc[1] = "raised"
    /\ result[1].err = [kind |-> "validation", model |-> "BeginPageContentExportRequest"]
    /\ reqs[1] = <<>>

\* The invocations that have ended, earliest first: those of hist, then the
\* one of task 1 if it has ended too.
NRuns == Len(hist) + (IF Ended(1) THEN 1 ELSE 0)

Run(k) == IF k <= Len(hist) THEN hist[k] ELSE Record(1)

SameResponse(x, y) == x.via = y.via /\ x.http.status = y.http.status /\ x.http = y.http

\* Two invocations were given the same arguments and the same responses.
SameInputs(a, b) ==
    /\ a.call.tool = b.call.tool
    /\ a.call = b.call
    /\ Len(a.rcvd) = Len(b.rcvd)
    /\ \A k \in 1..Len(a.rcvd) : SameResponse(a.rcvd[k], b.rcvd[k])

\* Two invocations issued the same requests and ended alike.
SameOutcome(a, b) ==
    /\ a.reqs = b.reqs
    /\ a.result.kind = b.result.kind
    /\ a.result = b.result

\* C12: what an invocation does depends on its arguments and on the
\* responses it receives, and on nothing earlier in the process: any two
\* invocations given the same arguments and responses issue the same
\* requests and end alike, whether the first of the process or preceded by a
\* begin call or by polls that returned or raised.
C12_NoStateBetweenCalls ==
    \A a \in 1..NRuns : \A b \in 1..NRuns :
        SameInputs(Run(a), Run(b)) => SameOutcome(Run(a), Run(b))

C12_Witness ==
    /\ Len(hist) = 2 /\ Ended(1) /\ Poll(1)
    /\ hist[1].call.tool = "get_page_content_export_status"
    /\ Len(hist[1].reqs) = 2
    /\ hist[2].call.tool = "begin_page_content_export"
    /\ hist[2].result.kind = "record"
    /\ SameInputs(hist[1], Record(1))
    /\ result[1].value.content = Some("# v2")

\* The record PageContentExportStatusResponse makes of the snapshot task i
\* was handed, when it accepts it.
Validated(i) == PageContentExportStatusResponse(rcvd[i][1].http.body)

\* C13: a poll handed a snapshot with status inProgress has ended after its
\* one request, with no download and no second status GET, and when the
\* snapshot validates it has returned it; and whatever the service reports,
\* a poll never issues more than two requests and has ended once every
\* request it issued is answered.
C13_InProgressReturnsAtOnce ==
    \A i \in Tasks :
        Poll(i)
        => /\ Len(reqs[i]) <= 2
           /\ (pc[i] # "idle" /\ Len(rcvd[i]) = Len(reqs[i])) => Ended(i)
           /\ (GotObject(i) /\ Snapshot(i).status = Some("inProgress"))
              => /\ Ended(i)
                 /\ Len(reqs[i]) = 1
                 /\ Downloads(i) = {}
                 /\ Validated(i).ok
                    => /\ pc[i] = "returned"
                       /\ result[i].value = Validated(i).value

C13_Witness ==
    /\ Poll(1) /\ GotObject(1)
    /\ Snapshot(1).status = Some("inProgress")
    /\ Snapshot(1).downloadLink = Some("https://cdn/x1")
    /\ pc[1] = "returned"
    /\ result[1].value.status = "inProgress"
    /\ Len(reqs[1]) = 1

\* The requests task i has sent through the shared client.
ClientCalls(i) == {k \in 1..Len(reqs[i]) : reqs[i][k].via = "client"}

\* C14: an invocation whose tool function was called (its typed request was
\* built) has sent exactly one request through the shared client, its first;
\* it has issued one or two requests in all, a second one only in
\* get_page_content_export_status and then the download GET through a
\* session; begin_page_content_export issues its one POST and nothing else.
C14_OneTransportCall ==
    \A i \in Tasks :
        (pc[i] # "idle" /\ TypedRequest(call[i]).ok)
        => /\ Cardinality(ClientCalls(i)) = 1
           /\ reqs[i][1].via = "client"
           /\ Len(reqs[i]) \in {1, 2}
           /\ Len(reqs[i]) = 2
              => /\ Poll(i)
                 /\ reqs[i][2].via = "session"
                 /\ reqs[i][2].method = "GET"
           /\ call[i].tool = "begin_page_content_export"
              => /\ Len(reqs[i]) = 1
                 /\ reqs[i][1].method = "POST"
                 /\ reqs[i][1].target
                      = PagePath(call[i].doc_id, call[i].page_id_or_name) \o "/export"

C14_Witness ==
    /\ call[1].tool = "begin_page_content_export"
    /\ GotJson(1)
    /\ pc[1] = "returned"
    /\ result[1].value.status = "inProgress"
    /\ Len(reqs[1]) = 1
    /\ reqs[1][1].method = "POST"

ListPages(i) == call[i].tool = "list_pages"

\* C15: list_pages issues one request and no more, token in the response or
\* not; the caller's token travels as the pageToken parameter and no
\* pageToken is sent when the caller gave none; the list it returns holds
\* the pages of that one response, one per item and in order, and its
\* next_page_token is the response's nextPageToken as it came.
C15_PaginationNotFollowed ==
    \A i \in Tasks :
        (ListPages(i) /\ pc[i] # "idle")
        => /\ Len(reqs[i]) = 1
           /\ Truthy(call[i].page_token)
              => /\ HasKey(reqs[i][1].params[1], "pageToken")
                 /\ reqs[i][1].params[1].pageToken = call[i].page_token[1]
           /\ IsNone(call[i].page_token) => ~HasKey(reqs[i][1].params[1], "pageToken")
           /\ pc[i] = "returned"
              => /\ GotObject(i)
                 /\ Len(rcvd[i]) = 1
                 /\ Len(result[i].value.items) = Len(Snapshot(i).items)
                 /\ \A k \in 1..Len(Snapshot(i).items) :
                       result[i].value.items[k] = Page(Snapshot(i).items[k]).value
                 /\ result[i].value.next_page_token = OptField(Snapshot(i), "nextPageToken")

C15_Witness ==
    /\ ListPages(1) /\ pc[1] = "returned"
    /\ call[1].page_token = Some("tok1")
    /\ reqs[1][1].params[1].pageToken = "tok1"
    /\ HasKey(Snapshot(1), "nextPageToken")
    /\ Len(Snapshot(1).items) = 2
    /\ Len(result[1].value.items) = 2
    /\ result[1].value.next_page_token = Some("tok2")
    /\ Len(reqs[1]) = 1

\* C16: a poll issues at most one download, as its second request and only
\* once the status GET has been answered with a 2xx body that validates; the
\* download goes to the download link of that very body; and while the
\* download is awaited the status GET is no longer outstanding: exactly one
\* request is unanswered at any await.
C16_DownloadAfterStatus ==
    \A i \in Tasks :
        Poll(i)
        => /\ Cardinality(Downloads(i)) <= 1
           /\ pc[i] \in {"client", "download"} => Len(reqs[i]) = Len(rcvd[i]) + 1
           /\ pc[i] = "client" => Downloads(i) = {}
           /\ Downloads(i) # {}
              => /\ Downloads(i) = {2}
                 /\ GotObject(i)
                 /\ Validated(i).ok
                 /\ IsSome(Snapshot(i).downloadLink)
                 /\ reqs[i][2].target = Snapshot(i).downloadLink[1]
                 /\ reqs[i][1].via = "client"
                 /\ rcvd[i][1].via = "client"

C16_Witness ==
    /\ Poll(1) /\ pc[1] = "download"
    /\ Len(reqs[1]) = 2 /\ Len(rcvd[1]) = 1
    /\ GotObject(1)
    /\ Snapshot(1).downloadLink = Some("https://cdn/x2")
    /\ reqs[1][2].target = "https://cdn/x2"

\* An invocation run on its own, replayed from its arguments and the
\* responses it was given: where it stands after the client's answer, ...
AloneAfterClient(c, http) ==
    LET outcome == ClientOutcome(http)
        typed == TypedRequest(c).value
    IN IF outcome.ok THEN OnJson(c, typed, outcome.json)
       ELSE OnClientError(c, typed, outcome.err)

\* ... how it ends (answers holds every response it received; a download
\* that was issued and not answered failed to connect), ...
AloneEnd(c, answers) ==
    IF Wrapper(c).next # "client" THEN Wrapper(c)
    ELSE LET after == AloneAfterClient(c, answers[1].http) IN
         IF after.next # "download" THEN after
         ELSE IF Len(answers) = 2
              THEN download_result(after.response, answers[2].http)
              ELSE download_failed(after.response, ConnectionError)

\* ... and the requests it issues.
AloneReqs(c, answers) ==
    IF Wrapper(c).next # "client" THEN <<>>
    ELSE LET after == AloneAfterClient(c, answers[1].http) IN
         IF after.next # "download" THEN <<Wrapper(c).request>>
         ELSE <<Wrapper(c).request, after.request>>

EndsAs(i, step) ==
    IF step.next = "return"
    THEN pc[i] = "returned" /\ result[i].kind = "record" /\ result[i].value = step.value
    ELSE pc[i] = "raised" /\ result[i].kind = "error" /\ result[i].err = step.err

\* C17: of two invocations interleaved at their awaits, each one that has
\* ended issued the requests and ended the way it does alone with the same
\* arguments and responses; and the record of a poll holds the text of its
\* own download, or its own snapshot's content when it downloaded nothing.
C17_InterleavedIndependent ==
    \A i \in Tasks :
        Ended(i)
        => /\ EndsAs(i, AloneEnd(call[i], rcvd[i]))
           /\ reqs[i] = AloneReqs(call[i], rcvd[i])
           /\ (Poll(i) /\ pc[i] = "returned")
              => result[i].value.content
                   = IF Len(rcvd[i]) = 2 THEN Some(rcvd[i][2].http.text)
                     ELSE Snapshot(i).content

\* Two polls for different request ids, one handed a complete snapshot and
\* the text of its download, the other a snapshot in progress; both have
\* returned.
C17_Witness ==
    /\ Poll(1) /\ Poll(2)
    /\ call[1].request_id = "r1" /\ call[2].request_id = "r2"
    /\ pc[1] = "returned" /\ pc[2] = "returned"
    /\ Len(rcvd[1]) = 2
    /\ result[1].value.content = Some("<p>v1</p>")
    /\ result[2].value.status = "inProgress"
    /\ result[2].value.content = None

\* C18: a poll handed a snapshot that validates, with status complete and a
\* download link that is absent or the empty string, has returned after its
\* one request, with no download and no error, a record with status complete
\* whose content is the snapshot's own, unset when the snapshot had none.
C18_CompleteWithoutLink ==
    \A i \in Tasks :
        (/\ Poll(i) /\ GotObject(i) /\ Validated(i).ok
         /\ Snapshot(i).status = Some("complete")
         /\ ~Truthy(Snapshot(i).downloadLink))
        => /\ pc[i] = "returned"
           /\ result[i].kind = "record"
           /\ Len(reqs[i]) = 1
           /\ Downloads(i) = {}
           /\ result[i].value.status = "complete"
           /\ result[i].value.content = Snapshot(i).content

C18_Witness ==
    /\ Poll(1) /\ GotObject(1)
    /\ Snapshot(1).status = Some("complete")
    /\ Snapshot(1).downloadLink = Some("")
    /\ Snapshot(1).content = None
    /\ pc[1] = "returned"
    /\ result[1].value.content = None
    /\ Len(reqs[1]) = 1

\* C19: the record a poll returns after a download has the id, status, href,
\* download link and error of the validated snapshot, which are those the
\* service sent, so that only content can differ; the record a poll returns
\* without a download is the validated snapshot, field for field.
C19_DownloadFrame ==
    \A i \in Tasks :
        (Poll(i) /\ pc[i] = "returned")
        => /\ GotObject(i) /\ Validated(i).ok
           /\ Downloads(i) = {} => result[i].value = Validated(i).value
           /\ Downloads(i) # {}
              => /\ result[i].value
                      = [Validated(i).value EXCEPT !.content = result[i].value.content]
                 /\ result[i].value.id = Snapshot(i).id[1]
                 /\ result[i].value.status = Snapshot(i).status[1]
                 /\ result[i].value.href = Snapshot(i).href[1]
                 /\ result[i].value.download_link = Snapshot(i).downloadLink
                 /\ result[i].value.error = Snapshot(i).error

C19_Witness ==
    /\ Poll(1) /\ pc[1] = "returned" /\ GotObject(1)
    /\ Downloads(1) = {2}
    /\ Snapshot(1).error = Some("export failed")
    /\ Snapshot(1).content = Some("stale")
    /\ result[1].value.content = Some("<p>v1</p>")
    /\ result[1].value.download_link = Some("https://cdn/x1")
    /\ result[1].value.error = Some("export failed")

DeleteElements(i) == call[i].tool = "delete_page_content_elements"

HasPlaceholder(i) ==
    \E k \in 1..Len(result[i].value.items) : result[i].value.items[k].id = "page-content"

\* C21: when the listing response holds both an items field and a content
\* field, a list that is returned has one element per item, each with the
\* content of its own item, and none of them is the page-content
\* placeholder, so empty items give an empty list whatever the blob; and a
\* returned list holds the placeholder only when the response had no items
\* field.
C21_ItemsBeforeContent ==
    \A i \in Tasks :
        (Listing(i) /\ GotObject(i))
        => /\ Ended(i)
           /\ (/\ HasKey(Snapshot(i), "items") /\ HasKey(Snapshot(i), "content")
               /\ pc[i] = "returned")
              => /\ IsSome(Snapshot(i).items)
                 /\ Len(result[i].value.items) = Len(Snapshot(i).items[1])
                 /\ \A k \in 1..Len(Snapshot(i).items[1]) :
                       result[i].value.items[k].content
                         = Get(Snapshot(i).items[1][k], "content", None)
                 /\ ~HasPlaceholder(i)
           /\ (pc[i] = "returned" /\ HasPlaceholder(i))
              => /\ ~HasKey(Snapshot(i), "items")
                 /\ HasKey(Snapshot(i), "content")

C21_Witness ==
    /\ Listing(1) /\ GotObject(1) /\ pc[1] = "returned"
    /\ HasKey(Snapshot(1), "items") /\ HasKey(Snapshot(1), "content")
    /\ Snapshot(1).items = Some(<<>>)
    /\ Snapshot(1).content = Some("<p>blob</p>")
    /\ result[1].value.items = <<>>

\* The item holds no null where PageContentElement wants a string: its id
\* and its type are each a string or left out.
NoNullField(item) ==
    /\ HasKey(item, "id") => IsSome(item.id)
    /\ HasKey(item, "type") => IsSome(item.type)

\* C22: when the listing response holds an items list none of whose items
\* holds a null id or type, the call returns a list of the same length in
\* which the k-th element stands for the k-th item: its id is '' when the
\* item has no id key, its type 'unknown' when the item has no type key, its
\* content unset when the item has no content key; and whenever a list is
\* returned for an items list, the two have the same length.
C22_DefaultsForIncompleteItems ==
    \A i \in Tasks :
        (/\ Listing(i) /\ GotObject(i)
         /\ HasKey(Snapshot(i), "items")
         /\ IsSome(Snapshot(i).items))
        => LET items == Snapshot(i).items[1] IN
           /\ (\A k \in 1..Len(items) : NoNullField(items[k])) => pc[i] = "returned"
           /\ pc[i] = "returned"
              => LET out == result[i].value.items IN
                 /\ Len(out) = Len(items)
                 /\ \A k \in 1..Len(items) :
                       /\ ~HasKey(items[k], "id") => out[k].id = ""
                       /\ ~HasKey(items[k], "type") => out[k].type = "unknown"
                       /\ ~HasKey(items[k], "content") => out[k].content = None

\* An item with no key at all after a complete one: both come back, the
\* second made of the three defaults.
C22_Witness ==
    /\ Listing(1) /\ GotObject(1) /\ pc[1] = "returned"
    /\ HasKey(Snapshot(1), "items")
    /\ IsSome(Snapshot(1).items)
    /\ Len(Snapshot(1).items[1]) = 2
    /\ DOMAIN Snapshot(1).items[1][1] = {"id", "type", "content"}
    /\ DOMAIN Snapshot(1).items[1][2] = {}
    /\ result[1].value.items[2] = [id |-> "", type |-> "unknown", content |-> None]

====
